---- MODULE Spec2Model ----
(***************************************************************************)
(* GeoPlot.render (src/geoplot.py) as a state machine, followed by the     *)
(* browser-side script of geoplot_template that consumes what render       *)
(* wrote.                                                                  *)
(*                                                                         *)
(* Python indexes from 0 and TLA+ sequences from 1: episode i of the       *)
(* source is state_trajectory[i + 1] here, entity i is coords[i + 1], and  *)
(* timestamps[t] of the source is timestamps[t + 1].  The loop counters    *)
(* `i` and `entity` keep the source's 0-based values.                      *)
(*                                                                         *)
(* Times are whole seconds.  An ISO-8601 string is modelled by the pair    *)
(* <<minutes, seconds>> that isoformat() prints and fromIso8601 parses.    *)
(***************************************************************************)
EXTENDS Integers, Sequences, FiniteSets, TLC

VARIABLES
    config,            \* self.config["simulation_metadata"]
    step_time,         \* self.step_time
    state_trajectory,  \* the argument of render
    pc,                \* position of the render call / of the page
    error,             \* the exception that ended render, or "none"
    i,                 \* loop counter of the extraction loop
    visited,           \* episode indexes whose state was read (history)
    coords,
    values,
    start_time,
    timestamps,
    entity,            \* loop counter of enumerate(coords)
    geojsons,
    geodata_file,      \* {name}.geojson on disk
    geoplot_file,      \* {name}.html on disk
    html,              \* what was substituted into the template
    page               \* what the page's script built, one entry per data source

vars == <<config, step_time, state_trajectory, pc, error, i, visited, coords,
          values, start_time, timestamps, entity, geojsons, geodata_file,
          geoplot_file, html, page>>

----------------------------------------------------------------------------
(* Bounds of the model. *)

MaxEpisodes == 3
MaxEntities == 2
MaxNumEpisodes == 2
MaxStepsPerEpisode == 2

(* Wall-clock readings pd.Timestamp.utcnow() may return (seconds). *)
StartTimes == {0, 59}

(* The two paths the options name: options["coordinates"], options["feature"]. *)
entity_position == "coordinates"
entity_property == "feature"

----------------------------------------------------------------------------
(* Inputs: states, episodes, trajectories. *)

(* Entity positions [[10+v, 20+v], [30+v, 40+v], ...]. *)
Coords(E, v) == [k \in 1..E |-> <<20 * k - 10 + v, 20 * k + v>>]

(* An (L x 1) property matrix [[1+v], [2+v], ...]. *)
Column(L, v) == [k \in 1..L |-> <<k + v>>]

(* A (1 x L) property matrix [[1+v, 2+v, ...]]. *)
Row(L, v) == <<[k \in 1..L |-> k + v]>>

(* A state is a mapping: `keys` are the paths present in it. *)
MkState(E, L, v) ==
    [keys |-> {entity_position, entity_property},
     pos |-> Coords(E, v), prop |-> Column(L, v)]

(* One property value per entity. *)
WellFormedStates(v) == {MkState(E, E, v) : E \in 1..MaxEntities}

MalformedStates ==
    { [keys |-> {entity_property}, pos |-> <<>>, prop |-> Column(1, 0)],
      [keys |-> {entity_position}, pos |-> Coords(1, 0), prop |-> <<>>],
      MkState(MaxEntities, MaxEntities - 1, 0),
      [keys |-> {entity_position, entity_property},
       pos |-> Coords(1, 0), prop |-> Row(2, 0)] }

(* The state an episode starts from; the states before the last are never
   looked at by render. *)
EarlierState == MkState(1, 1, 5)

Episodes ==
    {<<>>} \cup {<<s>> : s \in WellFormedStates(0)}
           \cup {<<EarlierState, s>> : s \in WellFormedStates(1) \cup MalformedStates}

RECURSIVE SeqsUpTo(_, _)
SeqsUpTo(S, n) ==
    IF n = 0 THEN {<<>>}
    ELSE LET shorter == SeqsUpTo(S, n - 1)
         IN  shorter \cup {Append(q, x) : q \in {r \in shorter : Len(r) = n - 1}, x \in S}

Trajectories == SeqsUpTo(Episodes, MaxEpisodes)

Configs == [num_episodes : 0..MaxNumEpisodes,
            num_steps_per_episode : 1..MaxStepsPerEpisode]

(* options["step_time"], seconds. *)
StepTimes == {0, 1}

----------------------------------------------------------------------------
(* Pure helpers. *)

(* get_by_path(state, path): the value under the path, or a lookup failure. *)
get_by_path(state, path) ==
    IF path \in state.keys
    THEN [found |-> TRUE,
          value |-> IF path = entity_position THEN state.pos ELSE state.prop]
    ELSE [found |-> FALSE, value |-> <<>>]

(* Mutant: a lookup failure is swallowed and an empty list returned. *)
read_var_default(state, var) ==
    [found |-> TRUE, value |-> get_by_path(state, var).value]

(* read_var, lines 150-152 *)
read_var(state, var) == get_by_path(state, var)

(* numpy's flatten(): row-major concatenation of the rows. *)
RECURSIVE flatten(_)
flatten(m) == IF m = <<>> THEN <<>> ELSE Head(m) \o flatten(Tail(m))

(* state_trajectory[i][-1] *)
final_state_of(episode) == episode[Len(episode)]

(* Mutant: the loop runs over every episode. *)
LoopBound_all(trajectory) == Len(trajectory)

(* range(0, len(state_trajectory) - 1), line 187 *)
LoopBound(trajectory) == Len(trajectory) - 1

(* Mutant: the entity loop stops one short, like the episode loop. *)
EntityLoopBound_short(cs) == Len(cs) - 1

(* enumerate(coords), line 208 *)
EntityLoopBound(cs) == Len(cs)

(* Mutant: one timestamp per episode. *)
TimestampCount_episodes(cfg) == cfg.num_episodes

(* num_episodes * num_steps_per_episode, lines 200-201 *)
TimestampCount(cfg) == cfg.num_episodes * cfg.num_steps_per_episode

(* Mutant: the step is taken to be one second. *)
TimestampAt_unit(start, k, step) == start + k

(* start_time + pd.Timedelta(seconds=i * self.step_time), line 198 *)
TimestampAt(start, k, step) == start + k * step

(* Timestamp.isoformat() *)
isoformat(t) == <<t \div 60, t % 60>>

(* Cesium.JulianDate.fromIso8601 *)
fromIso8601(s) == s[1] * 60 + s[2]

Min2(a, b) == IF a <= b THEN a ELSE b

(* zip(timestamps, values): as many pairs as the shorter sequence has. *)
ZipLen(ts, vs) == Min2(Len(ts), Len(vs))

(* Mutant: the pair is copied in input order. *)
GeometryCoordinates_unswapped(coord) == <<coord[1], coord[2]>>

(* "coordinates": [coord[1], coord[0]], line 215 *)
GeometryCoordinates(coord) == <<coord[2], coord[1]>>

(* timestamps[0], line 237 *)
FirstTimestamp(ts) == ts[1]

(* Mutant: the stop time is the one before the last. *)
LastTimestamp_previous(ts) == IF Len(ts) > 1 THEN ts[Len(ts) - 1] ELSE ts[1]

(* timestamps[-1], line 238 *)
LastTimestamp(ts) == ts[Len(ts)]

----------------------------------------------------------------------------
(* Feature construction, lines 208-222. *)

Feature(coord, time, value_list, ent) ==
    [type |-> "Feature",
     geometry |-> [type |-> "Point", coordinates |-> GeometryCoordinates(coord)],
     properties |-> [value |-> value_list[ent + 1], time |-> isoformat(time)]]

(* The inner loop for entity `ent` (0-based): one Feature per zipped pair. *)
Features(coord, ts, vs, ent) ==
    [t \in 1..ZipLen(ts, vs) |-> Feature(coord, ts[t], vs[t], ent)]

(* value_list[i] raises IndexError when the list has no index i. *)
InnerLoopRaises(ts, vs, ent) ==
    \E t \in 1..ZipLen(ts, vs) : Len(vs[t]) <= ent

FeatureCollection(features) == [type |-> "FeatureCollection", features |-> features]

----------------------------------------------------------------------------
(* The page's script, lines 47-141. *)

SeqMin(vs, n) == CHOOSE m \in {vs[k] : k \in 1..n} : \A k \in 1..n : m <= vs[k]
SeqMax(vs, n) == CHOOSE m \in {vs[k] : k \in 1..n} : \A k \in 1..n : m >= vs[k]

(* processTimeSeriesData: the samples of one geoJsonData and the minimum and
   maximum of its own features' values. *)
processTimeSeriesData(geoJsonData) ==
    LET fs == geoJsonData.features
        n == Len(fs)
        vs == [k \in 1..n |-> fs[k].properties.value]
    IN  [timeSeries |-> [k \in 1..n |->
                            [time |-> fromIso8601(fs[k].properties.time),
                             value |-> fs[k].properties.value,
                             coordinates |-> fs[k].geometry.coordinates]],
         minValue |-> IF n = 0 THEN "Infinity" ELSE SeqMin(vs, n),
         maxValue |-> IF n = 0 THEN "-Infinity" ELSE SeqMax(vs, n)]

(* getColor's factor (value - min) / (max - min), kept as a fraction; a zero
   denominator is the 0/0 the script then computes (NaN). *)
ColorFactor(value, min, max) == [num |-> value - min, den |-> max - min]

(* createTimeSeriesEntities: the samples added to the one entity of a
   data source. *)
createTimeSeriesEntities(timeSeriesData) ==
    [k \in 1..Len(timeSeriesData.timeSeries) |->
        LET smp == timeSeriesData.timeSeries[k]
        IN  [time |-> smp.time,
             value |-> smp.value,
             lon |-> smp.coordinates[1],
             lat |-> smp.coordinates[2],
             factor |-> ColorFactor(smp.value, timeSeriesData.minValue,
                                    timeSeriesData.maxValue)]]

----------------------------------------------------------------------------
(* The state machine. *)

NoHtml == [startTime |-> <<>>, stopTime |-> <<>>, data |-> <<>>]

Init ==
    /\ config \in Configs
    /\ step_time \in StepTimes
    /\ state_trajectory = <<>>
    /\ pc = "constructed"
    /\ error = "none"
    /\ i = 0
    /\ visited = {}
    /\ coords = <<>>
    /\ values = <<>>
    /\ start_time = 0
    /\ timestamps = <<>>
    /\ entity = 0
    /\ geojsons = <<>>
    /\ geodata_file = "absent"
    /\ geoplot_file = "absent"
    /\ html = NoHtml
    /\ page = <<>>

(* An exception leaves render.  "PathNotFound" stands for whatever the
   path lookup raises (KeyError, IndexError, AttributeError). *)
Raise(exc) == /\ pc' = "raised"
              /\ error' = exc

(* render(state_trajectory) is called: lines 180-184. *)
Render ==
    /\ pc = "constructed"
    /\ \E trajectory \in Trajectories : state_trajectory' = trajectory
    /\ pc' = "extract"
    /\ UNCHANGED <<config, step_time, error, i, visited, coords, values,
                   start_time, timestamps, entity, geojsons, geodata_file,
                   geoplot_file, html, page>>

(* One iteration of the extraction loop, lines 187-192. *)
Extract ==
    /\ pc = "extract"
    /\ i < LoopBound(state_trajectory)
    /\ LET episode == state_trajectory[i + 1]
       IN  IF episode = <<>>
           THEN /\ Raise("IndexError")
                /\ UNCHANGED <<i, visited, coords, values>>
           ELSE LET final_state == final_state_of(episode)
                    position == read_var(final_state, entity_position)
                    property == read_var(final_state, entity_property)
                IN  /\ visited' = visited \cup {i}
                    /\ IF ~position.found
                       THEN /\ Raise("PathNotFound")
                            /\ UNCHANGED <<i, coords, values>>
                       ELSE /\ coords' = position.value
                            /\ IF ~property.found
                               THEN /\ Raise("PathNotFound")
                                    /\ UNCHANGED <<i, values>>
                               ELSE /\ values' = Append(values, flatten(property.value))
                                    /\ i' = i + 1
                                    /\ UNCHANGED <<pc, error>>
    /\ UNCHANGED <<config, step_time, state_trajectory, start_time, timestamps,
                   entity, geojsons, geodata_file, geoplot_file, html, page>>

(* The loop is over; the clock is read and the timestamps are generated,
   lines 194-205. *)
GenerateTimestamps ==
    /\ pc = "extract"
    /\ i >= LoopBound(state_trajectory)
    /\ \E now \in StartTimes :
         /\ start_time' = now
         /\ timestamps' = [k \in 1..TimestampCount(config) |->
                              TimestampAt(now, k - 1, step_time)]
    /\ entity' = 0
    /\ geojsons' = <<>>
    /\ pc' = "build"
    /\ UNCHANGED <<config, step_time, state_trajectory, error, i, visited,
                   coords, values, geodata_file, geoplot_file, html, page>>

(* One iteration of `for i, coord in enumerate(coords)`, lines 208-222. *)
BuildCollection ==
    /\ pc = "build"
    /\ entity < EntityLoopBound(coords)
    /\ IF InnerLoopRaises(timestamps, values, entity)
       THEN /\ Raise("IndexError")
            /\ UNCHANGED <<entity, geojsons>>
       ELSE /\ geojsons' = Append(geojsons,
                  FeatureCollection(Features(coords[entity + 1], timestamps,
                                             values, entity)))
            /\ entity' = entity + 1
            /\ UNCHANGED <<pc, error>>
    /\ UNCHANGED <<config, step_time, state_trajectory, i, visited, coords,
                   values, start_time, timestamps, geodata_file, geoplot_file,
                   html, page>>

(* with open(geodata_path, "w"): json.dump(...), lines 225-226.  The write
   can fail after the file was opened. *)
WriteGeoJson ==
    /\ pc = "build"
    /\ entity >= EntityLoopBound(coords)
    /\ \E ok \in BOOLEAN :
         IF ok
         THEN /\ geodata_file' = "written"
              /\ pc' = "write_html"
              /\ UNCHANGED error
         ELSE /\ geodata_file' = "partial"
              /\ Raise("IOError")
    /\ UNCHANGED <<config, step_time, state_trajectory, i, visited, coords,
                   values, start_time, timestamps, entity, geojsons,
                   geoplot_file, html, page>>

(* Lines 232-242: the file is opened (and so created, empty) before the
   substitution's arguments are evaluated; timestamps[0] raises IndexError
   when no timestamp was generated. *)
WriteHtml ==
    /\ pc = "write_html"
    /\ IF timestamps = <<>>
       THEN /\ geoplot_file' = "empty"
            /\ Raise("IndexError")
            /\ UNCHANGED html
       ELSE \E ok \in BOOLEAN :
              IF ok
              THEN /\ html' = [startTime |-> isoformat(FirstTimestamp(timestamps)),
                               stopTime |-> isoformat(LastTimestamp(timestamps)),
                               data |-> geojsons]
                   /\ geoplot_file' = "written"
                   /\ pc' = "done"
                   /\ UNCHANGED error
              ELSE /\ geoplot_file' = "empty"
                   /\ Raise("IOError")
                   /\ UNCHANGED html
    /\ UNCHANGED <<config, step_time, state_trajectory, i, visited, coords,
                   values, start_time, timestamps, entity, geojsons,
                   geodata_file, page>>

(* A browser opens the written page: `for (const geoJsonData of geoJsons)`,
   lines 136-141. *)
LoadPage ==
    /\ pc = "done"
    /\ page' = [k \in 1..Len(html.data) |->
                   createTimeSeriesEntities(processTimeSeriesData(html.data[k]))]
    /\ pc' = "loaded"
    /\ UNCHANGED <<config, step_time, state_trajectory, error, i, visited,
                   coords, values, start_time, timestamps, entity, geojsons,
                   geodata_file, geoplot_file, html>>

Next ==
    \/ Render
    \/ Extract
    \/ GenerateTimestamps
    \/ BuildCollection
    \/ WriteGeoJson
    \/ WriteHtml
    \/ LoadPage

Spec == Init /\ [][Next]_vars

----------------------------------------------------------------------------
(* Vocabulary of the properties. *)

NumEpisodes == Len(state_trajectory)

(* The extraction loop ran to its end without raising. *)
ExtractionOver == pc \in {"build", "write_html", "done", "loaded"}

(* Every FeatureCollection was built (the .geojson write was reached). *)
CollectionsBuilt == pc \in {"write_html", "done", "loaded"} \/ geodata_file # "absent"

(* render returned normally. *)
Completed == pc \in {"done", "loaded"}

(* The last state of episode ep (0-based), read off the trajectory. *)
LastStateOf(ep) ==
    LET episode == state_trajectory[ep + 1] IN episode[Len(episode)]

(* Row-major reading of a rectangular matrix, stated without flatten. *)
IsRowMajorOf(flat, matrix) ==
    LET width == IF matrix = <<>> THEN 0 ELSE Len(matrix[1])
    IN  /\ Len(flat) = Len(matrix) * width
        /\ \A j \in 1..Len(flat) :
             flat[j] = matrix[((j - 1) \div width) + 1][((j - 1) % width) + 1]

AllFeatures ==
    {<<k, t>> \in (1..Len(geojsons)) \X (1..MaxNumEpisodes * MaxStepsPerEpisode) :
        t <= Len(geojsons[k].features)}

FeatureAt(k, t) == geojsons[k].features[t]

ConfiguredCount == config.num_episodes * config.num_steps_per_episode

----------------------------------------------------------------------------
(* C1: render reads exactly the episodes 0..N-2 and never the last one;
   values has one entry per visited episode, the row-major flattening of
   the property of that episode's last state, in episode order; the coords
   behind every geometry are those of the last state of episode N-2. *)
C1_VisitsAllButLast ==
    /\ (NumEpisodes - 1) \notin visited
    /\ (ExtractionOver /\ NumEpisodes >= 1) =>
         /\ visited = 0..(NumEpisodes - 2)
         /\ Len(values) = NumEpisodes - 1
         /\ \A t \in 1..Len(values) :
              IsRowMajorOf(values[t], LastStateOf(t - 1).prop)
         /\ NumEpisodes >= 2 => coords = LastStateOf(NumEpisodes - 2).pos
         /\ \A kt \in AllFeatures :
              LET source == LastStateOf(NumEpisodes - 2).pos[kt[1]]
              IN  FeatureAt(kt[1], kt[2]).geometry.coordinates
                     = <<source[2], source[1]>>

(* Three episodes with different coordinates in episodes 0 and 1, a readable
   last episode, and features emitted. *)
C1_Witness ==
    /\ pc = "loaded"
    /\ NumEpisodes = 3
    /\ state_trajectory[3] # <<>>
    /\ LastStateOf(0).pos # LastStateOf(1).pos
    /\ AllFeatures # {}

(* C2: render never completes on a trajectory with no episode, or with no
   state in any episode. *)
C2_EmptyTrajectoryFails ==
    Completed => \E ep \in 1..NumEpisodes : state_trajectory[ep] # <<>>

(* C3: the number of FeatureCollections is the entity count E = len(coords),
   and collection k is entity k's: its geometry is coords[k]'s and its values
   are the k-th of every step. *)
C3_OneCollectionPerEntity ==
    CollectionsBuilt =>
       /\ Len(geojsons) = Len(coords)
       /\ \A kt \in AllFeatures :
            /\ FeatureAt(kt[1], kt[2]).geometry.coordinates
                  = <<coords[kt[1]][2], coords[kt[1]][1]>>
            /\ FeatureAt(kt[1], kt[2]).properties.value = values[kt[2]][kt[1]]
       /\ Completed => html.data = geojsons

(* Two entities at different places with different values, rendered. *)
C3_Witness ==
    /\ Completed
    /\ Len(coords) = 2
    /\ Len(geojsons) = 2
    /\ Len(geojsons[1].features) >= 1
    /\ geojsons[1].features # geojsons[2].features

(* C4: every FeatureCollection holds min(len(values), len(timestamps))
   Features, where len(timestamps) is num_episodes * num_steps_per_episode
   of the configuration and len(values) is the number of episodes visited. *)
C4_FeatureCount ==
    CollectionsBuilt =>
       /\ Len(timestamps) = ConfiguredCount
       /\ Len(values) = Cardinality(visited)
       /\ \A k \in 1..Len(geojsons) :
            Len(geojsons[k].features)
               = (IF Cardinality(visited) <= ConfiguredCount
                  THEN Cardinality(visited) ELSE ConfiguredCount)

(* Fewer value steps than timestamps, with two steps per episode. *)
C4_Witness ==
    /\ Completed
    /\ Len(geojsons) >= 1
    /\ Len(values) = 2
    /\ config.num_steps_per_episode = 2
    /\ ConfiguredCount > Len(values)

(* C5: when some visited episode's flattened values differ in length from
   the entity count, no Feature of that episode's step is emitted: render
   does not complete. *)
C5_ShapeMismatchSurfaces ==
    (Completed /\ Len(geojsons) >= 1) =>
       \A t \in 1..ZipLen(timestamps, values) : Len(values[t]) = Len(coords)

(* C6: the Feature at position t (0-based) carries time start + t*step_time
   and value values[t][i]; for positive step_time the times of a collection
   increase strictly, step_time apart. *)
C6_TimesAndValues ==
    \A kt \in AllFeatures :
       LET k == kt[1]
           t == kt[2]
           time == fromIso8601(FeatureAt(k, t).properties.time)
       IN  /\ time = start_time + (t - 1) * step_time
           /\ FeatureAt(k, t).properties.time = isoformat(timestamps[t])
           /\ FeatureAt(k, t).properties.value = values[t][k]
           /\ (step_time > 0 /\ t > 1) =>
                 /\ fromIso8601(FeatureAt(k, t - 1).properties.time) < time
                 /\ time - fromIso8601(FeatureAt(k, t - 1).properties.time)
                       = step_time

(* Two Features one positive step apart, across a minute boundary. *)
C6_Witness ==
    /\ step_time > 0
    /\ start_time = 59
    /\ \E kt \in AllFeatures : kt[2] = 2

(* C7: every Feature of entity i's collection has coordinates
   [coords[i][1], coords[i][0]], the same at every timestamp. *)
C7_SwappedCoordinates ==
    \A kt \in AllFeatures :
       /\ FeatureAt(kt[1], kt[2]).geometry.coordinates[1] = coords[kt[1]][2]
       /\ FeatureAt(kt[1], kt[2]).geometry.coordinates[2] = coords[kt[1]][1]
       /\ FeatureAt(kt[1], kt[2]).geometry.coordinates
             = FeatureAt(kt[1], 1).geometry.coordinates

(* Two collections of two Features each. *)
C7_Witness ==
    /\ Len(geojsons) = 2
    /\ Len(geojsons[2].features) = 2

(* C8: a path that does not resolve on the last state of a visited episode
   aborts render with that error and leaves both files unwritten; the .html
   file is touched only after the .geojson file was written. *)
C8_AbortBeforeWrites ==
    /\ geoplot_file # "absent" => geodata_file = "written"
    /\ (\E ep \in visited :
           LastStateOf(ep).keys # {entity_position, entity_property}) =>
          /\ pc = "raised"
          /\ error = "PathNotFound"
          /\ geodata_file = "absent"
          /\ geoplot_file = "absent"

(* The property path fails in the second visited episode. *)
C8_Witness ==
    /\ error = "PathNotFound"
    /\ Len(values) = 1
    /\ coords = LastStateOf(1).pos

(* Two fractions name the same colour factor (0/0 is NaN on both sides). *)
SameFactor(f, g) ==
    IF f.den = 0 \/ g.den = 0
    THEN f.den = 0 /\ g.den = 0
    ELSE f.num * g.den = g.num * f.den

(* C9: values are normalised with one minimum and maximum over all
   FeatureCollections, so equal values in different collections get the
   same colour factor. *)
C9_GlobalNormalisation ==
    pc = "loaded" =>
       \A k1, k2 \in 1..Len(page) :
          \A a \in 1..Len(page[k1]), b \in 1..Len(page[k2]) :
             page[k1][a].value = page[k2][b].value =>
                SameFactor(page[k1][a].factor, page[k2][b].factor)

(* C10: on completion with at least one timestamp and a positive step,
   startTime is the first timestamp, stopTime is start + (count-1)*step_time,
   and every Feature's time lies between them. *)
C10_TimeWindow ==
    (Completed /\ ConfiguredCount >= 1 /\ step_time > 0) =>
       /\ html.startTime = isoformat(timestamps[1])
       /\ fromIso8601(html.startTime) = start_time
       /\ fromIso8601(html.stopTime)
             = start_time + (ConfiguredCount - 1) * step_time
       /\ \A k \in 1..Len(html.data) :
            \A t \in 1..Len(html.data[k].features) :
               LET time == fromIso8601(html.data[k].features[t].properties.time)
               IN  /\ fromIso8601(html.startTime) <= time
                   /\ time <= fromIso8601(html.stopTime)

(* Several timestamps, more than the episodes visited, and Features. *)
C10_Witness ==
    /\ Completed
    /\ step_time > 0
    /\ ConfiguredCount >= 2
    /\ Len(values) < ConfiguredCount
    /\ \E kt \in AllFeatures : kt[2] = 2

====
